---- MODULE Spec2Model ----
(***************************************************************************)
(* pyrevanced (src/main.py): the concurrent downloads of main(), the       *)
(* completion report fed by Downloader._QUEUE / Downloader._QUEUE_LENGTH,  *)
(* the join of the ThreadPoolExecutor and the engine run of ArgParser.run. *)
(*                                                                         *)
(* Threads: the main thread, one pool worker per fetch task (the pool has  *)
(* at least five workers, so the five submitted tasks all run at once),    *)
(* the worker of get_patches, whose done-callback runs report().           *)
(***************************************************************************)
EXTENDS Integers, Sequences, FiniteSets, TLC

\* ---------------------------------------------------------------- bounds
\* perf_counter() differences are drawn from 1..MaxDur.
MaxDur == 2

\* ------------------------------------------------------- program constants
\* The fetch tasks of main(): executor.map(repository, ('cli','integrations',
\* 'patches')) and executor.submit(apkmirror, ...).
Repositories == {"cli", "integrations", "patches"}

Fetches == Repositories \cup {"youtube"}

Durations == 1 .. MaxDur

\* Order of the destination file names as Python compares str:
\* 'cli.*' < 'integrations.*' < 'patches.*' < 'youtube.apk'.
NameRank(n) ==
    CASE n = "cli" -> 1
      [] n = "integrations" -> 2
      [] n = "patches" -> 3
      [] n = "youtube" -> 4

VARIABLES
    main_pc,        \* position of the main thread in main() / ArgParser.run
    pc,             \* pc[f]: position of fetch task f
    tmp,            \* tmp[f]: value of _QUEUE_LENGTH loaded by f's '+= 1'
    file,           \* file[f]: f's destination file in temp_folder: "absent",
                    \* "open" (being written), or closed and "complete"
                    \* (the whole response body) or "partial" (broken off)
    resp,           \* resp[f]: _download's local 'resp' while the call lasts:
                    \* "none", or the status class "ok" / "http_error"
    QUEUE,          \* Downloader._QUEUE: the queued (duration, name), in put order
    QUEUE_LENGTH,   \* Downloader._QUEUE_LENGTH
    patches_pc,     \* position of the get_patches task
    report_pc,      \* position of Downloader.report()
    started,        \* report()'s local 'started'
    rtmp,           \* value of _QUEUE_LENGTH loaded by report()'s '-= 1'
    consumed,       \* names report() has printed, in order
    seen,           \* the queue as report()'s last get() found it (kept until
                    \* report() moves on to line 63)
    engine,         \* the java subprocess: "none", "running", "exit0", "exit1"
    output,         \* temp_folder/output.apk: "absent" or "new"
    target,         \* cwd/revanced.apk: "absent", "old" or "new"
    target0,        \* cwd/revanced.apk as it was when the program started
    text,           \* the README: resp.text.split(<section marker>), each piece split
                    \* into lines, each line a sequence of tokens
    yt,             \* Patches._yt
    ytm,            \* Patches._ytm
    app,            \* main()'s 'app', the answer to the first prompt
    app_patches,    \* main()'s 'app_patches'
    version,        \* main()'s 'version'
    line,           \* the answer to get_patches' prompt, a sequence of characters
    PATCHES,        \* ArgParser._PATCHES
    sel_pc          \* get_patches as a function of its inputs: "idle", "prompt",
                    \* "done", "failed"

vars == <<main_pc, pc, tmp, file, resp, QUEUE, QUEUE_LENGTH, patches_pc, report_pc,
          started, rtmp, consumed, seen, engine, output, target, target0,
          text, yt, ytm, app, app_patches, version, line, PATCHES, sel_pc>>

fetchVars == <<pc, tmp, file, resp>>
reportVars == <<report_pc, started, rtmp, consumed, seen>>
runVars == <<engine, output, target>>
catVars == <<text, yt, ytm, app, app_patches, version>>
selVars == <<line, PATCHES, sel_pc>>
pureVars == <<catVars, selVars>>

\* The threads, the queue and the files before main() has done anything.
MainInit ==
    /\ main_pc = "start"
    /\ pc = [f \in Fetches |-> "pending"]
    /\ tmp = [f \in Fetches |-> 0]
    /\ file = [f \in Fetches |-> "absent"]
    /\ resp = [f \in Fetches |-> "none"]
    /\ QUEUE = <<>>
    /\ QUEUE_LENGTH = 0
    /\ patches_pc = "pending"
    /\ report_pc = "idle"
    /\ started = FALSE
    /\ rtmp = 0
    /\ consumed = <<>>
    /\ seen = <<>>
    /\ engine = "none"
    /\ output = "absent"
    /\ target0 \in {"absent", "old"}
    /\ target = target0

\* Nothing parsed, nothing selected (ArgParser._PATCHES = [], line 106).
CatIdle ==
    /\ text = <<>>
    /\ yt = <<>>
    /\ ytm = <<>>
    /\ app = ""
    /\ app_patches = <<>>
    /\ version = <<>>

SelIdle ==
    /\ line = <<>>
    /\ PATCHES = <<>>
    /\ sel_pc = "idle"

Init == MainInit /\ CatIdle /\ SelIdle

\* ------------------------------------------------------------ main, part 1
\* main() lines 154-174: Patches(), the app prompt, patches.get(). Any of
\* them may raise (network error, invalid choice, no versioned patch), which
\* ends the program before anything is submitted.
MainPrepare ==
    /\ main_pc = "start"
    /\ \E ok \in BOOLEAN : main_pc' = IF ok THEN "with" ELSE "Failed"
    /\ UNCHANGED <<fetchVars, QUEUE, QUEUE_LENGTH, patches_pc, reportVars,
                   runVars, target0, pureVars>>

\* Lines 176-179: the three repository tasks, the apkmirror task and the
\* get_patches task are submitted; none of the calls blocks or raises.
MainSubmit ==
    /\ main_pc = "with"
    /\ main_pc' = "join"
    /\ pc' = [f \in Fetches |-> "resolve"]
    /\ patches_pc' = "input"
    /\ UNCHANGED <<tmp, file, resp, QUEUE, QUEUE_LENGTH, reportVars, runVars,
                   target0, pureVars>>

\* ------------------------------------------------------------- fetch tasks
\* repository(name) lines 51-53: fetch and parse the release page; an
\* exception ends the task (the future keeps it, nobody asks for it).
repository(name) ==
    /\ name \in Repositories
    /\ pc[name] = "resolve"
    /\ \E ok \in BOOLEAN :
         pc' = [pc EXCEPT ![name] = IF ok THEN "inc_load" ELSE "failed"]
    /\ UNCHANGED <<main_pc, tmp, file, resp, QUEUE, QUEUE_LENGTH, patches_pc,
                   reportVars, runVars, target0, pureVars>>

\* apkmirror(version, music) lines 37-46: two page fetches and parses.
apkmirror ==
    /\ pc["youtube"] = "resolve"
    /\ \E ok \in BOOLEAN :
         pc' = [pc EXCEPT !["youtube"] = IF ok THEN "inc_load" ELSE "failed"]
    /\ UNCHANGED <<main_pc, tmp, file, resp, QUEUE, QUEUE_LENGTH, patches_pc,
                   reportVars, runVars, target0, pureVars>>

\* _download line 27, 'cls._QUEUE_LENGTH += 1': the load ...
download_load(f) ==
    /\ pc[f] = "inc_load"
    /\ tmp' = [tmp EXCEPT ![f] = QUEUE_LENGTH]
    /\ pc' = [pc EXCEPT ![f] = "inc_store"]
    /\ UNCHANGED <<main_pc, file, resp, QUEUE, QUEUE_LENGTH, patches_pc,
                   reportVars, runVars, target0, pureVars>>

\* ... and the store, which no lock ties to the load.
download_store(f) ==
    /\ pc[f] = "inc_store"
    /\ QUEUE_LENGTH' = tmp[f] + 1
    /\ tmp' = [tmp EXCEPT ![f] = 0]
    /\ pc' = [pc EXCEPT ![f] = "open"]
    /\ UNCHANGED <<main_pc, file, resp, QUEUE, patches_pc, reportVars, runVars,
                   target0, pureVars>>

download_open_put_inside(f) ==
    /\ pc[f] = "open"
    /\ file' = [file EXCEPT ![f] = "open"]
    /\ \E d \in Durations : QUEUE' = Append(QUEUE, <<d, f>>)
    /\ pc' = [pc EXCEPT ![f] = "stream"]
    /\ UNCHANGED <<main_pc, tmp, resp, QUEUE_LENGTH, patches_pc, reportVars,
                   runVars, target0, pureVars>>

\* Line 29: open(file_name, 'wb') creates the (empty) destination file.
download_open(f) ==
    /\ pc[f] = "open"
    /\ file' = [file EXCEPT ![f] = "open"]
    /\ pc' = [pc EXCEPT ![f] = "stream"]
    /\ UNCHANGED <<main_pc, tmp, resp, QUEUE, QUEUE_LENGTH, patches_pc, reportVars,
                   runVars, target0, pureVars>>

\* Lines 30-32: session.get and the chunk loop, then the 'with' closes the
\* file. An exception leaves the with block too: the file is closed with
\* whatever was written and the task ends without a put. The response
\* status is never looked at (no raise_for_status): the body of a
\* non-success response is written to the file like any other.
download_stream(f) ==
    /\ pc[f] = "stream"
    /\ \E r \in {"ok", "http_error", "raise"} :
         /\ file' = [file EXCEPT ![f] = IF r = "raise" THEN "partial" ELSE "complete"]
         /\ resp' = [resp EXCEPT ![f] = IF r = "raise" THEN "none" ELSE r]
         /\ pc' = [pc EXCEPT ![f] = IF r = "raise" THEN "failed" ELSE "put"]
    /\ UNCHANGED <<main_pc, tmp, QUEUE, QUEUE_LENGTH, patches_pc, reportVars,
                   runVars, target0, pureVars>>

\* Line 33: cls._QUEUE.put((perf_counter() - start, file_name)); the call
\* returns and its locals are gone.
download_put(f) ==
    /\ pc[f] = "put"
    /\ \E d \in Durations : QUEUE' = Append(QUEUE, <<d, f>>)
    /\ resp' = [resp EXCEPT ![f] = "none"]
    /\ pc' = [pc EXCEPT ![f] = "done"]
    /\ UNCHANGED <<main_pc, tmp, file, QUEUE_LENGTH, patches_pc, reportVars,
                   runVars, target0, pureVars>>

\* --------------------------------------------------------- get_patches task
\* get_patches lines 158-169 blocks in input() and may raise; either way
\* the future becomes done and its done-callback, report(), starts in the
\* same worker thread (line 179).
get_patches ==
    /\ patches_pc = "input"
    /\ \E ok \in BOOLEAN : patches_pc' = IF ok THEN "done" ELSE "failed"
    /\ report_pc' = "get"
    /\ started' = FALSE
    /\ UNCHANGED <<main_pc, fetchVars, QUEUE, QUEUE_LENGTH, rtmp, consumed, seen,
                   runVars, target0, pureVars>>

\* ------------------------------------------------------------------ report
\* Python compares the queued tuples (duration, file_name) item by item.
TupleLess(a, b) ==
    \/ a[1] < b[1]
    \/ a[1] = b[1] /\ NameRank(a[2]) < NameRank(b[2])

HeadIndexFifo(q) == 1

HeadIndexStable(q) ==
    CHOOSE i \in 1 .. Len(q) :
        \A j \in 1 .. Len(q) :
            j # i => (q[i][1] < q[j][1] \/ (q[i][1] = q[j][1] /\ i < j))

\* PriorityQueue.get() hands out the lowest queued entry (heappop).
HeadIndex(q) ==
    CHOOSE i \in 1 .. Len(q) :
        \A j \in 1 .. Len(q) : j # i => TupleLess(q[i], q[j])

Remove(q, i) == SubSeq(q, 1, i - 1) \o SubSeq(q, i + 1, Len(q))

\* Lines 60-62: get() blocks while the queue is empty; the item is printed.
report_get ==
    /\ report_pc = "get"
    /\ QUEUE # <<>>
    /\ LET i == HeadIndex(QUEUE) IN
         /\ consumed' = Append(consumed, QUEUE[i][2])
         /\ QUEUE' = Remove(QUEUE, i)
    /\ seen' = QUEUE
    /\ report_pc' = "dec_load"
    /\ UNCHANGED <<main_pc, fetchVars, QUEUE_LENGTH, patches_pc, started, rtmp,
                   runVars, target0, pureVars>>

\* Line 63, 'cls._QUEUE_LENGTH -= 1': the load ...
report_load ==
    /\ report_pc = "dec_load"
    /\ rtmp' = QUEUE_LENGTH
    /\ seen' = <<>>
    /\ report_pc' = "dec_store"
    /\ UNCHANGED <<main_pc, fetchVars, QUEUE, QUEUE_LENGTH, patches_pc, started,
                   consumed, runVars, target0, pureVars>>

\* ... and the store.
report_store ==
    /\ report_pc = "dec_store"
    /\ QUEUE_LENGTH' = rtmp - 1
    /\ rtmp' = 0
    /\ report_pc' = "test"
    /\ UNCHANGED <<main_pc, fetchVars, QUEUE, patches_pc, started, consumed, seen,
                   runVars, target0, pureVars>>

report_test_no_first_pass ==
    /\ report_pc = "test"
    /\ started' = TRUE
    /\ report_pc' = IF QUEUE_LENGTH = 0 THEN "returned" ELSE "get"
    /\ UNCHANGED <<main_pc, fetchVars, QUEUE, QUEUE_LENGTH, patches_pc, rtmp,
                   consumed, seen, runVars, target0, pureVars>>

\* Lines 65-68: the first pass only sets 'started'; later passes leave the
\* loop when the counter reads zero.
report_test ==
    /\ report_pc = "test"
    /\ IF ~started
         THEN started' = TRUE /\ report_pc' = "get"
         ELSE /\ started' = started
              /\ report_pc' = IF QUEUE_LENGTH = 0 THEN "returned" ELSE "get"
    /\ UNCHANGED <<main_pc, fetchVars, QUEUE, QUEUE_LENGTH, patches_pc, rtmp,
                   consumed, seen, runVars, target0, pureVars>>

\* ------------------------------------------------------------ main, part 2
Finished(f) == pc[f] \in {"done", "failed"}

AllWorkersDoneNoWait == TRUE

AllWorkersDoneFetchesOnly == \A f \in Fetches : Finished(f)

\* Leaving the 'with' block (line 179 -> 180) is executor.shutdown(wait=True):
\* it joins every worker thread, so every task has ended, and so has the
\* done-callback report() that runs in the get_patches worker.
AllWorkersDone ==
    /\ \A f \in Fetches : Finished(f)
    /\ report_pc = "returned"

\* Lines 179-182: the join, print('Download completed.'), arg_parser.run().
MainJoin ==
    /\ main_pc = "join"
    /\ AllWorkersDone
    /\ main_pc' = "run"
    /\ UNCHANGED <<fetchVars, QUEUE, QUEUE_LENGTH, patches_pc, reportVars,
                   runVars, target0, pureVars>>

\* ArgParser.run lines 118-131: build args, Popen(['java', ...]); Popen
\* raises when java cannot be started.
run_spawn ==
    /\ main_pc = "run"
    /\ \E ok \in BOOLEAN :
         /\ main_pc' = IF ok THEN "wait" ELSE "Failed"
         /\ engine' = IF ok THEN "running" ELSE engine
    /\ UNCHANGED <<fetchVars, QUEUE, QUEUE_LENGTH, patches_pc, reportVars,
                   output, target, target0, pureVars>>

\* Lines 132-135: relay stdout until the engine ends, process.wait(). The
\* engine is opaque: it ends with any exit status, having written
\* output.apk or not. The exit status is not looked at.
run_wait ==
    /\ main_pc = "wait"
    /\ \E status \in {"exit0", "exit1"}, wrote \in BOOLEAN :
         /\ engine' = status
         /\ output' = IF wrote THEN "new" ELSE "absent"
    /\ main_pc' = "relocate"
    /\ UNCHANGED <<fetchVars, QUEUE, QUEUE_LENGTH, patches_pc, reportVars,
                   target, target0, pureVars>>

RelocatedKeepsOld(t, o) ==
    [target |-> IF t = "absent" THEN o ELSE t, output |-> "absent"]

\* Lines 139-141 when neither call raises: a target that is a file is
\* unlinked, then output.apk is renamed to the target path. t is the target
\* and o is output.apk before, the result the two files after.
Relocated(t, o) == [target |-> o, output |-> "absent"]

\* Lines 137-141 and 183: unlink the target if it is a file, then rename
\* output.apk to it. unlink may raise (the target is left as it was);
\* rename raises when output.apk is absent, and may raise otherwise (for
\* one, temp_folder and cwd on different file systems).
run_relocate ==
    /\ main_pc = "relocate"
    /\ \E unlinked \in BOOLEAN, renamed \in BOOLEAN :
         IF target # "absent" /\ ~unlinked
           THEN main_pc' = "Failed" /\ UNCHANGED <<target, output>>
           ELSE IF output = "absent" \/ ~renamed
             THEN main_pc' = "Failed" /\ target' = "absent" /\ output' = output
             ELSE /\ main_pc' = "Done"
                  /\ target' = Relocated(target, output).target
                  /\ output' = Relocated(target, output).output
    /\ UNCHANGED <<fetchVars, QUEUE, QUEUE_LENGTH, patches_pc, reportVars,
                   engine, target0, pureVars>>

\* ---------------------------------------------------------- specifications
Next ==
    \/ MainPrepare
    \/ MainSubmit
    \/ \E name \in Repositories : repository(name)
    \/ apkmirror
    \/ \E f \in Fetches : download_load(f)
    \/ \E f \in Fetches : download_store(f)
    \/ \E f \in Fetches : download_open(f)
    \/ \E f \in Fetches : download_stream(f)
    \/ \E f \in Fetches : download_put(f)
    \/ get_patches
    \/ report_get
    \/ report_load
    \/ report_store
    \/ report_test
    \/ MainJoin
    \/ run_spawn
    \/ run_wait
    \/ run_relocate

Spec == Init /\ [][Next]_vars

\* Every thread that can take a step is eventually scheduled; the operator
\* eventually answers the prompt.
FairSpec == Spec /\ WF_vars(Next)

\* ----------------------------------------------------------------- catalog
\* Bounds of the catalog texts: sections after the first marker, and table
\* and filler lines in the whole text.
MaxSections == 2

MaxLines == 6

\* str.split(sep) on a sequence of tokens.
RECURSIVE SplitOn(_, _)
SplitOn(s, sep) ==
    IF \A i \in 1 .. Len(s) : s[i] # sep
      THEN <<s>>
      ELSE LET k == CHOOSE i \in 1 .. Len(s) :
                      s[i] = sep /\ \A j \in 1 .. i - 1 : s[j] # sep
           IN <<SubSeq(s, 1, k - 1)>> \o SplitOn(SubSeq(s, k + 1, Len(s)), sep)

\* q[1:-1]
Inner(q) == SubSeq(q, 2, Len(q) - 1)

\* str.strip() for the blank token.
RECURSIVE Strip(_)
Strip(s) ==
    IF s = <<>> THEN s
    ELSE IF Head(s) = " " THEN Strip(Tail(s))
    ELSE IF s[Len(s)] = " " THEN Strip(SubSeq(s, 1, Len(s) - 1))
    ELSE s

\* Line 86: the backtick (token "bq") is replaced by '', then strip().
Clean(cell) == Strip(SelectSeq(cell, LAMBDA c : c # "bq"))

\* 'word' in name, for names made of whole words.
Contains(name, word) == \E i \in 1 .. Len(name) : name[i] = word

\* Lines 83-87: the lines of a section whose split('|')[1:-1] has three
\* cells, as (n, d, a, v).
RECURSIVE Rows(_, _)
Rows(lines, app_name) ==
    IF lines = <<>> THEN <<>>
    ELSE LET patch == Inner(SplitOn(Head(lines), "|"))
             rest == Rows(Tail(lines), app_name)
         IN IF Len(patch) = 3
              THEN <<[name |-> Clean(patch[1]), description |-> Clean(patch[2]),
                      app |-> app_name, version |-> Clean(patch[3])]>> \o rest
              ELSE rest

DropBoilerplateOne(rows) == SubSeq(rows, 2, Len(rows))

\* Line 89: app_patches[2:]
DropBoilerplate(rows) == SubSeq(rows, 3, Len(rows))

\* Lines 76-89 for one section: [] unless 'youtube' is in the app name.
SectionPatches(lines) ==
    LET app_name == Inner(lines[1])
    IN IF ~Contains(app_name, "youtube")
         THEN <<>>
         ELSE DropBoilerplate(Rows(lines, app_name))

\* Lines 74-89: available_patches over the pieces after the first marker.
RECURSIVE Available(_)
Available(sections) ==
    IF sections = <<>> THEN <<>>
    ELSE SectionPatches(Head(sections)) \o Available(Tail(sections))

\* Patches() line 154 (lines 72-97). lines[0] raises IndexError for a piece
\* without lines (a marker at the very end of the text).
Patches_init ==
    /\ main_pc = "start"
    /\ LET sections == Tail(text) IN
         IF \E i \in 1 .. Len(sections) : sections[i] = <<>>
           THEN main_pc' = "Failed" /\ UNCHANGED <<yt, ytm>>
           ELSE /\ main_pc' = "prompt"
                /\ yt' = SelectSeq(Available(sections),
                                   LAMBDA d : ~Contains(d.app, "music"))
                /\ ytm' = SelectSeq(Available(sections),
                                    LAMBDA d : Contains(d.app, "music"))
    /\ UNCHANGED <<fetchVars, QUEUE, QUEUE_LENGTH, patches_pc, reportVars,
                   runVars, target0, text, app, app_patches, version, selVars>>

getOrNone(patches) ==
    LET versioned == SelectSeq(patches, LAMBDA d : d.version # <<"all">>)
    IN [raised |-> FALSE, patches |-> patches,
        version |-> IF versioned = <<>> THEN <<>> ELSE versioned[1].version]

\* Patches.get lines 100-102, after the choice of the list: next() raises
\* StopIteration when no descriptor has a version other than 'all'.
get(patches) ==
    LET versioned == SelectSeq(patches, LAMBDA d : d.version # <<"all">>)
    IN IF versioned = <<>>
         THEN [raised |-> TRUE, patches |-> <<>>, version |-> <<>>]
         ELSE [raised |-> FALSE, patches |-> patches,
               version |-> versioned[1].version]

\* main() lines 171-174: the app prompt, the check of the answer,
\* patches.get(music).
MainChoose ==
    /\ main_pc = "prompt"
    /\ \E a \in {"yt", "ytm", "other"} :
         /\ app' = a
         /\ IF a \notin {"yt", "ytm"}
              THEN main_pc' = "Failed" /\ UNCHANGED <<app_patches, version>>
              ELSE LET r == get(IF a = "ytm" THEN ytm ELSE yt) IN
                     IF r.raised
                       THEN main_pc' = "Failed" /\ UNCHANGED <<app_patches, version>>
                       ELSE /\ main_pc' = "with"
                            /\ app_patches' = r.patches
                            /\ version' = r.version
    /\ UNCHANGED <<fetchVars, QUEUE, QUEUE_LENGTH, patches_pc, reportVars,
                   runVars, target0, text, yt, ytm, selVars>>

\* The catalog texts the parser is run on. App names as words:
AppNames ==
    {<<"google", "youtube">>, <<"google", "youtube", "music">>, <<"twitter">>}

\* The first line of a section: the app name between backticks.
Heading(a) == <<"bq">> \o a \o <<"bq">>

\* The patch name of the table row at line k of section s.
RowName(s, k) == "p" \o ToString(s) \o ToString(k)

\* A line after the heading: a table row of three cells, or a row of two.
LineKinds == {"row", "two_cells"}

\* The version cell of the row at line k: a version number at odd lines,
\* 'all' at even ones.
VersionAt(k) == IF k % 2 = 1 THEN "17.36.37" ELSE "all"

Render(kind, s, k) ==
    CASE kind = "row" ->
           <<"|", " ", "bq", RowName(s, k), "bq", " ", "|", " ", "text", " ",
             "|", " ", VersionAt(k), " ", "|">>
      [] kind = "two_cells" -> <<"|", " ", "text", " ", "|", " ", "text", " ", "|">>

\* The number of lines after the heading in each piece; -1 is a piece
\* without any line (a marker at the very end of the text).
RECURSIVE Sum(_)
Sum(q) == IF q = <<>> THEN 0 ELSE (IF Head(q) > 0 THEN Head(q) ELSE 0) + Sum(Tail(q))

\* The text with the given pieces: piece s is headed names[s] and has lens[s]
\* further lines, whose kinds are taken from 'kinds' in order.
Build(lens, names, kinds) ==
    [s \in 1 .. Len(lens) |->
        IF lens[s] = -1 THEN <<>>
        ELSE <<Heading(names[s])>> \o
             [k \in 1 .. lens[s] |->
                 Render(kinds[Sum(SubSeq(lens, 1, s - 1)) + k], s, k)]]

\* What precedes the first marker.
Preamble == <<<<"title">>>>

\* Every text of up to MaxSections pieces after the first marker with up to
\* MaxLines lines after the headings.
CatInit ==
    /\ MainInit
    /\ SelIdle
    /\ \E nsec \in 0 .. MaxSections :
         \E lens \in [1 .. nsec -> -1 .. MaxLines] :
           /\ Sum(lens) <= MaxLines
           /\ \E names \in [1 .. nsec -> AppNames] :
                \E kinds \in [1 .. Sum(lens) -> LineKinds] :
                  text = <<Preamble>> \o Build(lens, names, kinds)
    /\ yt = <<>>
    /\ ytm = <<>>
    /\ app = ""
    /\ app_patches = <<>>
    /\ version = <<>>

CatNext ==
    \/ Patches_init
    \/ MainChoose
    \/ MainSubmit

CatSpec == CatInit /\ [][CatNext]_vars

\* --------------------------------------------------------------- selection
\* Bounds of the selection inputs: descriptors shown, characters typed.
MaxK == 3

MaxLen == 5

\* The characters the operator types: a blank, decimal digits, a letter and
\* SUPERSCRIPT TWO ("sup2"), for which str.isdigit() is true and int() raises.
Chars == {" ", "0", "1", "2", "a", "sup2"}

DecimalChars == {"0", "1", "2"}

\* str.isdigit()
isdigit(tok) ==
    /\ tok # <<>>
    /\ \A i \in 1 .. Len(tok) : tok[i] \in DecimalChars \cup {"sup2"}

CharValue(c) == CASE c = "0" -> 0 [] c = "1" -> 1 [] c = "2" -> 2

\* int(tok) for a token of decimal digits.
RECURSIVE int(_)
int(tok) ==
    IF tok = <<>> THEN 0
    ELSE 10 * int(SubSeq(tok, 1, Len(tok) - 1)) + CharValue(tok[Len(tok)])

\* ArgParser.include, lines 108-110.
include(P, name) == P \o <<"-i", name>>

excludeNothing(P, name) == P

\* ArgParser.exclude, lines 112-114.
exclude(P, name) == P \o <<"-e", name>>

\* Line 166, the tokens that pass isdigit(): i.strip() for i in
\* input().split(' ').
DigitTokens(l) ==
    SelectSeq([i \in 1 .. Len(SplitOn(l, " ")) |-> Strip(SplitOn(l, " ")[i])],
              isdigit)

\* Lines 168-169: one flag pair per descriptor from index i on (0-based).
RECURSIVE Flags(_, _, _, _)
Flags(P, shown, selected, i) ==
    IF i >= Len(shown) THEN P
    ELSE Flags(IF i \in selected THEN include(P, shown[i + 1].name)
                                 ELSE exclude(P, shown[i + 1].name),
               shown, selected, i + 1)

\* get_patches lines 158-169 as a function of app_patches and the answer.
\* sample(range(len(app_patches) + 1), 3) raises ValueError for fewer than
\* two descriptors; int() raises ValueError for a token isdigit() accepts
\* that is not decimal. Both come before the first include/exclude.
get_patches_body ==
    /\ sel_pc = "prompt"
    /\ LET digits == DigitTokens(line) IN
         IF \/ Len(app_patches) + 1 < 3
            \/ \E i \in 1 .. Len(digits) :
                 \E j \in 1 .. Len(digits[i]) : digits[i][j] \notin DecimalChars
           THEN sel_pc' = "failed" /\ PATCHES' = PATCHES
           ELSE /\ sel_pc' = "done"
                /\ PATCHES' = Flags(PATCHES, app_patches,
                                    {int(digits[i]) : i \in 1 .. Len(digits)}, 0)
    /\ UNCHANGED <<main_pc, fetchVars, QUEUE, QUEUE_LENGTH, patches_pc, reportVars,
                   runVars, target0, catVars, line>>

\* K descriptors with distinct names, as patches.get hands them over.
Descriptors(K) ==
    [i \in 1 .. K |-> [name |-> <<RowName(1, i)>>, description |-> <<"text">>,
                       app |-> <<"google", "youtube">>,
                       version |-> <<VersionAt(i)>>]]

SelInit ==
    /\ MainInit
    /\ text = <<>>
    /\ yt = <<>>
    /\ ytm = <<>>
    /\ app = "yt"
    /\ \E K \in 1 .. MaxK :
         /\ app_patches = Descriptors(K)
         /\ version = <<VersionAt(1)>>
    /\ \E n \in 0 .. MaxLen : line \in [1 .. n -> Chars]
    /\ PATCHES = <<>>
    /\ sel_pc = "prompt"

SelNext == get_patches_body

SelSpec == SelInit /\ [][SelNext]_vars

\* ------------------------------------------------------------------ claims
AllFetched == \A f \in Fetches : pc[f] = "done"

AnyFetchFailed == \E f \in Fetches : pc[f] = "failed"

Names(q) == {q[i] : i \in 1 .. Len(q)}

InRun == main_pc \in {"run", "wait", "relocate", "Done"} \/ engine # "none"

\* C1: when all four fetches have recorded their result and report() has
\* returned, report() has consumed exactly the four results, each once, and
\* none is left in the queue.
C1_DrainExactlyN ==
    (report_pc = "returned" /\ AllFetched) =>
        /\ Len(consumed) = Cardinality(Fetches)
        /\ Names(consumed) = Fetches
        /\ QUEUE = <<>>

\* C2: (the half a finite run refutes) in an execution without a failed
\* fetch, report() has not returned while a launched fetch has yet to
\* record its result.
C2_ReturnsOnlyWhenAllRecorded ==
    (report_pc = "returned" /\ ~AnyFetchFailed) => AllFetched

\* C3: ArgParser.run and the engine subprocess start only after every fetch
\* task has ended; the engine never runs beside a running fetch task.
C3_RunAfterAllFetches ==
    InRun => \A f \in Fetches : Finished(f)

C3_Witness ==
    /\ engine = "running"
    /\ AllFetched

\* C4: once a prerequisite fetch has failed, ArgParser.run is never started.
C4_NoRunAfterFailedFetch ==
    AnyFetchFailed => ~InRun

\* C5: whenever a fetch task has failed, the run eventually ends Failed.
C5_FailedFetchAborts ==
    [](AnyFetchFailed => <>(main_pc = "Failed"))

\* C6: when the engine exits non-zero, ArgParser.run ends with an error and
\* the target file is as it was before.
C6_EngineFailureKeepsTarget ==
    (engine = "exit1" /\ main_pc \in {"Done", "Failed"}) =>
        (main_pc = "Failed" /\ target = target0)

\* C7: after ArgParser.run has ended, either the target holds the engine's
\* output, or an error was raised and the target is as it was before.
C7_RelocationAtomic ==
    (engine \in {"exit0", "exit1"} /\ main_pc \in {"Done", "Failed"}) =>
        \/ main_pc = "Done" /\ target = "new"
        \/ main_pc = "Failed" /\ target = target0

\* The entry of 'seen' that report()'s last get() took.
TakenIndex == CHOOSE i \in 1 .. Len(seen) : seen[i][2] = consumed[Len(consumed)]

\* C8: the result report() takes has the smallest duration of the results
\* queued at that get().
C8_SmallestDurationFirst ==
    report_pc = "dec_load" =>
        \A j \in 1 .. Len(seen) : seen[TakenIndex][1] <= seen[j][1]

C8_Witness ==
    /\ report_pc = "dec_load"
    /\ Len(seen) >= 2
    /\ TakenIndex # 1
    /\ seen[TakenIndex][1] < seen[1][1]

\* C9 as claimed: of two queued results with equal durations, report()
\* takes the one that was put first.
C9_TiesByArrival ==
    report_pc = "dec_load" =>
        \A j \in 1 .. Len(seen) :
            (j # TakenIndex /\ seen[j][1] = seen[TakenIndex][1]) => TakenIndex < j

\* C9 amended: of two queued results with equal durations, report() takes
\* the one whose destination name compares lower, whichever was put first.
C9_TiesByName ==
    report_pc = "dec_load" =>
        \A j \in 1 .. Len(seen) :
            (j # TakenIndex /\ seen[j][1] = seen[TakenIndex][1]) =>
                NameRank(seen[TakenIndex][2]) < NameRank(seen[j][2])

C9_Witness ==
    /\ report_pc = "dec_load"
    /\ \E j \in 1 .. Len(seen) :
         /\ j < TakenIndex
         /\ seen[j][1] = seen[TakenIndex][1]

RecordCount(f) ==
    Cardinality({i \in 1 .. Len(QUEUE) : QUEUE[i][2] = f})
        + Cardinality({i \in 1 .. Len(consumed) : consumed[i] = f})

\* C11: a result is recorded at most once per fetch, only by a fetch whose
\* transfer succeeded (no exception and a success response status), and a
\* fetch that ended successfully has its result recorded.
C11_RecordedIffSucceeded ==
    [][\A f \in Fetches :
         /\ RecordCount(f)' <= 1
         /\ RecordCount(f)' > RecordCount(f) => resp[f] = "ok"
         /\ pc'[f] = "done" => RecordCount(f)' = 1]_vars

\* C12: after a fetch has failed, temp_folder holds no file with that
\* fetch's destination name.
C12_NoFileAfterFailure ==
    \A f \in Fetches : pc[f] = "failed" => file[f] = "absent"

\* C13: when the engine exited 0 with output.apk written and the relocation
\* went through (ArgParser.run returned), the target holds exactly the
\* engine's output, also when a target existed before, and output.apk is
\* gone from temp_folder.
C13_RelocationReplaces ==
    (engine = "exit0" /\ main_pc = "Done") =>
        (target = "new" /\ output = "absent")

C13_Witness ==
    /\ engine = "exit0"
    /\ main_pc = "Done"
    /\ target0 = "old"
    /\ target = "new"

\* _download calls whose '+= 1' is over.
Begun(f) ==
    \/ pc[f] \in {"open", "stream", "put", "done"}
    \/ pc[f] = "failed" /\ file[f] # "absent"

\* No '+= 1' is pending in a worker, and report() is not between taking a
\* result and the end of its '-= 1'.
CounterQuiet ==
    /\ \A f \in Fetches : pc[f] \notin {"inc_load", "inc_store"}
    /\ report_pc \notin {"dec_load", "dec_store"}

\* C18: whenever no thread is in the middle of updating it, _QUEUE_LENGTH
\* is the number of _download calls begun minus the number of results
\* report() has consumed.
C18_CounterConsistent ==
    CounterQuiet =>
        QUEUE_LENGTH = Cardinality({f \in Fetches : Begun(f)}) - Len(consumed)

\* C19: report() never returns having consumed fewer than two results.
C19_ReturnsAfterTwo ==
    report_pc = "returned" => Len(consumed) >= 2

\* The counter read zero after the first result, and report() went back to
\* get(), where it waits for a second one.
C19_Witness ==
    /\ report_pc = "get"
    /\ started
    /\ Len(consumed) = 1
    /\ QUEUE_LENGTH = 0
    /\ QUEUE = <<>>

\* C20: every result that is queued or was consumed by report() names a
\* file that is completely written and closed.
C20_ReportedFileClosed ==
    \A f \in Fetches : RecordCount(f) > 0 => file[f] = "complete"

C20_Witness ==
    \E f \in Fetches :
        /\ f \in Names(consumed)
        /\ file[f] = "complete"
        /\ \E g \in Fetches : file[g] = "open"

\* A line with exactly four '|' has three cells between the outer two.
IsThreeCellRow(l) == Cardinality({i \in 1 .. Len(l) : l[i] = "|"}) = 4

\* The section belongs to the app the operator asked for.
Belongs(section, a) ==
    LET words == {section[1][i] : i \in 1 .. Len(section[1])}
    IN /\ "youtube" \in words
       /\ ("music" \in words) = (a = "ytm")

\* The names in the three-cell rows of a section, from the third such row
\* on, in the order of the lines.
LaterRowNames(section) ==
    LET rowLines == SelectSeq([i \in 1 .. Len(section) |-> i],
                              LAMBDA i : IsThreeCellRow(section[i]))
    IN [j \in 1 .. (IF Len(rowLines) > 2 THEN Len(rowLines) - 2 ELSE 0) |->
           LET l == section[rowLines[j + 2]]
           IN l[CHOOSE i \in 1 .. Len(l) :
                    /\ l[i] \notin {"|", " ", "bq"}
                    /\ \A h \in 1 .. i - 1 : l[h] \in {"|", " ", "bq"}]]

RECURSIVE ExpectedNames(_, _)
ExpectedNames(sections, a) ==
    IF sections = <<>> THEN <<>>
    ELSE (IF Belongs(Head(sections), a) THEN LaterRowNames(Head(sections)) ELSE <<>>)
             \o ExpectedNames(Tail(sections), a)

\* C16: the list patches.get hands to main() holds, in source order, the
\* three-cell rows of the sections of the requested app from the third row
\* of each section on, and nothing else.
C16_OnlyRequestedAppRows ==
    main_pc \in {"with", "join"} =>
        /\ [i \in 1 .. Len(app_patches) |-> app_patches[i].name[1]]
               = ExpectedNames(Tail(text), app)
        /\ \A i \in 1 .. Len(app_patches) :
               /\ Len(app_patches[i].name) = 1
               /\ Contains(app_patches[i].app, "youtube")
               /\ Contains(app_patches[i].app, "music") = (app = "ytm")

\* A row of the requested app is returned while a section of another app
\* has a third row too.
C16_Witness ==
    /\ main_pc = "with"
    /\ Len(app_patches) >= 1
    /\ \E s \in 2 .. Len(text) :
         /\ text[s] # <<>>
         /\ ~Belongs(text[s], app)
         /\ Cardinality({i \in 1 .. Len(text[s]) : IsThreeCellRow(text[s][i])}) >= 3

\* C17: for a text without the section marker the run fails before main()
\* gets a descriptor list: nothing is handed over, no task is submitted.
C17_NoMarkerFails ==
    Len(text) = 1 =>
        /\ main_pc \in {"start", "prompt", "Failed"}
        /\ app_patches = <<>>
        /\ \A f \in Fetches : pc[f] = "pending"
        /\ patches_pc = "pending"

\* patches.get raised for a valid app choice.
C17_Witness ==
    /\ Len(text) = 1
    /\ app \in {"yt", "ytm"}
    /\ main_pc = "Failed"

\* The descriptors (0-based indices) that have a flag pair with this flag.
Flagged(flag) ==
    {i \in 0 .. Len(app_patches) - 1 :
        \E j \in 1 .. Len(PATCHES) \div 2 :
            PATCHES[2 * j - 1] = flag /\ PATCHES[2 * j] = app_patches[i + 1].name}

\* C14: after get_patches has completed, every shown descriptor name is in
\* exactly one flag pair of ArgParser._PATCHES, '-i name' or '-e name'.
C14_FlagsPartition ==
    sel_pc = "done" =>
        /\ Len(PATCHES) = 2 * Len(app_patches)
        /\ \A i \in 1 .. Len(app_patches) :
               Cardinality({j \in 1 .. Len(PATCHES) \div 2 :
                               /\ PATCHES[2 * j] = app_patches[i].name
                               /\ PATCHES[2 * j - 1] \in {"-i", "-e"}}) = 1

C14_Witness ==
    /\ sel_pc = "done"
    /\ Flagged("-i") # {}
    /\ Flagged("-e") # {}

\* The value of a token made of decimal digits only.
RECURSIVE Decimal(_)
Decimal(tok) ==
    IF Len(tok) = 1 THEN CharValue(tok[1])
    ELSE CharValue(tok[Len(tok)]) + 10 * Decimal(SubSeq(tok, 1, Len(tok) - 1))

\* The indices named by the numeric tokens of the answer.
Named ==
    LET toks == SplitOn(line, " ")
    IN {i \in 0 .. Len(app_patches) - 1 :
           \E t \in 1 .. Len(toks) :
               /\ toks[t] # <<>>
               /\ \A c \in 1 .. Len(toks[t]) : toks[t][c] \in DecimalChars
               /\ Decimal(toks[t]) = i}

\* C15: for every answer, get_patches ends without error, the included
\* indices are those named by a numeric token, the excluded ones are all
\* the others.
C15_SelectionFromTokens ==
    sel_pc \in {"done", "failed"} =>
        /\ sel_pc = "done"
        /\ Flagged("-i") = Named
        /\ Flagged("-e") = (0 .. Len(app_patches) - 1) \ Named

====
